---- MODULE Spec2Model ----
(***************************************************************************)
(* A model of the Bluesky/Twitch live bot: TwitchMonitor (token cache and  *)
(* stream status), BlueSkyPoster (login session, duplicate suppression,    *)
(* send) and LiveBot (startup, the monitoring loop, run_once).             *)
(*                                                                         *)
(* Python's Optional[T] is a sequence of length at most one: None is <<>>  *)
(* and a value x is <<x>>.  Times are whole seconds.  Emoji of the post    *)
(* text are written as ASCII stand-ins; the text is otherwise built by the *)
(* same concatenation as the code's.                                       *)
(***************************************************************************)
EXTENDS Integers, Sequences, FiniteSets, TLC

VARIABLES
    now,                \* datetime.now(), in seconds
    nAdv,               \* how many times the clock has been advanced
    access_token,       \* TwitchMonitor._access_token
    token_expires_at,   \* TwitchMonitor._token_expires_at
    client,             \* BlueSkyPoster._client
    last_post_content,  \* BlueSkyPoster._last_post_content
    last_post_time,     \* BlueSkyPoster._last_post_time
    last_live_status,   \* LiveBot._last_live_status
    running,            \* LiveBot.running
    pc,                 \* where the main thread is
    tick,               \* locals of the run_once in progress or just over, what
                        \* it did, how the run_once before it ended, and whether
                        \* it started after a shutdown signal
    seen,               \* the last status result the bot saw, the runs of live
                        \* results its ticks saw begin, their publish calls,
                        \* whether the publish of the current run failed, and
                        \* whether a shutdown signal was delivered
    call,               \* the call just made on a component, with its outcome
    prevCall,           \* the outcome of the most recent post, or _get_access_token
    published,          \* the last MaxPublished posts sent by post calls made
                        \* directly on the poster, oldest first
    manual,             \* the hotkey thread: where its callback is, how many
                        \* times the hotkey fired, and what the last callback did
    config,             \* the Config object, if constructed: Config._config
    last_stream_info,   \* TwitchMonitor._last_stream_info
    wait,               \* the wait_for_live in progress or just over
    mock                \* a MockBlueSkyPoster: its last-post record and its
                        \* posted_messages

vars == <<now, nAdv, access_token, token_expires_at, client, last_post_content,
          last_post_time, last_live_status, running, pc, tick, seen, call,
          prevCall, published, manual, config, last_stream_info, wait, mock>>

None == <<>>
Some(x) == <<x>>

---------------------------------------------------------------------------
(* Bounds of the model *)

MaxAdvances == 3
MaxPublished == 2
MaxManual == 1
MaxSleeps == 1
MaxTemplateLen == 3

\* The amounts by which the clock advances between two calls on the poster,
\* on the monitor, and between two ticks of the bot.
PosterSteps == {1, 7199}
MonitorSteps == {1, 299, 400, 3000}
BotSteps == {60, 3600}

---------------------------------------------------------------------------
(* Program constants *)

DuplicateWindow == 7200
TokenMarginMinutes == 5
DefaultExpiresIn == 3600
HttpOk == 200
MaxThumbBytes == 1000000
TitleLimit == 300
DescriptionLimit == 1000
MinCheckInterval == 30

---------------------------------------------------------------------------
(* BlueSkyPoster *)

PosterState == [client |-> client, last_post_content |-> last_post_content,
                last_post_time |-> last_post_time]

\* What the remote social platform does with a login and with a send.
PosterEnvs == [login : BOOLEAN, send : BOOLEAN]

\* A variant of _is_duplicate_post whose window includes its end.
IsDuplicatePost_Inclusive(content, time, text, t) ==
    IF content = None THEN FALSE
    ELSE IF content[1] = text
         THEN IF time # None /\ t - time[1] <= DuplicateWindow THEN TRUE ELSE FALSE
         ELSE FALSE

\* _is_duplicate_post, evaluated at time t
IsDuplicatePost(content, time, text, t) ==
    IF content = None THEN FALSE
    ELSE IF content[1] = text
         THEN IF time # None /\ t - time[1] < DuplicateWindow THEN TRUE ELSE FALSE
         ELSE FALSE

\* A variant of _get_client that takes a failed login for a session.
GetClient_IgnoresFailure(cl, loginOk) ==
    IF cl # None THEN [client |-> cl, ok |-> TRUE, logins |-> 0]
    ELSE [client |-> Some("session"), ok |-> TRUE, logins |-> 1]

\* A variant of _get_client that logs in whether or not a session is held.
GetClient_Relogin(cl, loginOk) ==
    IF loginOk THEN [client |-> Some("session"), ok |-> TRUE, logins |-> 1]
    ELSE [client |-> cl, ok |-> cl # None, logins |-> 1]

\* _get_client: the session held, or a login
GetClient(cl, loginOk) ==
    IF cl # None THEN [client |-> cl, ok |-> TRUE, logins |-> 0]
    ELSE IF loginOk THEN [client |-> Some("session"), ok |-> TRUE, logins |-> 1]
    ELSE [client |-> None, ok |-> FALSE, logins |-> 1]

\* A variant of the duplicate test of post that does not look at force.
ShouldSkip_IgnoresForce(force, duplicate) == duplicate

\* post: "if not force and self._is_duplicate_post(text_content)"
ShouldSkip(force, duplicate) == ~force /\ duplicate

\* A variant of the record kept by post that keeps the first post sent.
RecordPost_KeepsFirst(p, text, t) ==
    IF p.last_post_content # None THEN p
    ELSE [p EXCEPT !.last_post_content = Some(text), !.last_post_time = Some(t)]

\* A variant of the record kept by post that leaves the time as it was.
RecordPost_ContentOnly(p, text, t) == [p EXCEPT !.last_post_content = Some(text)]

\* post: "Store for duplicate detection"
RecordPost(p, text, t) ==
    [p EXCEPT !.last_post_content = Some(text), !.last_post_time = Some(t)]

\* A variant of post that tests for a duplicate after the send.
Post_CheckAfterSend(p, t, text, force, embed, env) ==
    LET c == GetClient(p.client, env.login) IN
    IF ~c.ok
    THEN [poster |-> [p EXCEPT !.client = c.client], result |-> "raise",
          logins |-> c.logins, sends |-> 0, sent |-> <<>>]
    ELSE IF ~env.send
    THEN [poster |-> [p EXCEPT !.client = c.client], result |-> "raise",
          logins |-> c.logins, sends |-> 1, sent |-> <<>>]
    ELSE IF ShouldSkip(force, IsDuplicatePost(p.last_post_content, p.last_post_time, text, t))
    THEN [poster |-> [p EXCEPT !.client = c.client], result |-> "false",
          logins |-> c.logins, sends |-> 1,
          sent |-> <<[text |-> text, embed |-> embed, time |-> t]>>]
    ELSE [poster |-> RecordPost([p EXCEPT !.client = c.client], text, t),
          result |-> "true", logins |-> c.logins, sends |-> 1,
          sent |-> <<[text |-> text, embed |-> embed, time |-> t]>>]

\* post(text, force, embed) at time t.  result is "true", "false" or "raise"
\* (BlueSkyPostError); sent lists the send_post requests that succeeded.
Post(p, t, text, force, embed, env) ==
    IF ShouldSkip(force, IsDuplicatePost(p.last_post_content, p.last_post_time, text, t))
    THEN [poster |-> p, result |-> "false", logins |-> 0, sends |-> 0, sent |-> <<>>]
    ELSE LET c == GetClient(p.client, env.login) IN
         IF ~c.ok
         THEN [poster |-> [p EXCEPT !.client = c.client], result |-> "raise",
               logins |-> c.logins, sends |-> 0, sent |-> <<>>]
         ELSE IF ~env.send
         THEN [poster |-> [p EXCEPT !.client = c.client], result |-> "raise",
               logins |-> c.logins, sends |-> 1, sent |-> <<>>]
         ELSE [poster |-> RecordPost([p EXCEPT !.client = c.client], text, t),
               result |-> "true", logins |-> c.logins, sends |-> 1,
               sent |-> <<[text |-> text, embed |-> embed, time |-> t]>>]

\* test_connection: the session, then the profile request
TestConnection(p, env) ==
    LET c == GetClient(p.client, env.login)
    IN  [poster |-> [p EXCEPT !.client = c.client],
         ok |-> (c.ok /\ env.profile), logins |-> c.logins]

\* reset_duplicate_tracking
ResetDuplicateTracking(p) ==
    [p EXCEPT !.last_post_content = None, !.last_post_time = None]

\* A variant of MockBlueSkyPoster.post that does not look at force.
MockPost_IgnoresForce(m, t, text, force, embed) ==
    IF IsDuplicatePost(m.last_post_content, m.last_post_time, text, t)
    THEN [mock |-> m, result |-> "false"]
    ELSE [mock |-> [m EXCEPT !.posted_messages =
                                 Append(@, [text |-> text, time |-> t, embed |-> embed]),
                             !.last_post_content = Some(text),
                             !.last_post_time = Some(t)],
          result |-> "true"]

\* MockBlueSkyPoster.post(text, force, embed) at time t, for a text that is
\* a str: the duplicate test, then the message is appended and recorded.
MockPost(m, t, text, force, embed) ==
    IF ~force /\ IsDuplicatePost(m.last_post_content, m.last_post_time, text, t)
    THEN [mock |-> m, result |-> "false"]
    ELSE [mock |-> [m EXCEPT !.posted_messages =
                                 Append(@, [text |-> text, time |-> t, embed |-> embed]),
                             !.last_post_content = Some(text),
                             !.last_post_time = Some(t)],
          result |-> "true"]

\* Texts of the stream page are sequences of characters.
OgTitle == <<"T", "w", "i", "t", "c", "h">>
TagTitle == <<"T", "v">>
OgDescription == <<"L", "i", "v", "e">>
MetaDescription == <<"S", "t", "r", "e", "a", "m">>
LongTitle == [i \in 1..(TitleLimit + 1) |-> "t"]
LongDescription == [i \in 1..(DescriptionLimit + 1) |-> "d"]

\* A stream page that answers, with its og:title and og:description, no
\* og:image, and a platform that accepts the login and the upload.
PlainPage ==
    [page |-> "ok", og_title |-> OgTitle, title |-> TagTitle,
     og_description |-> OgDescription, description |-> MetaDescription,
     image |-> "none", size |-> 0, login |-> TRUE, upload |-> TRUE]

\* What the libraries, the stream page, its og:image and the blob store do on
\* a preview fetch.  page is "no_library" (requests or BeautifulSoup is not
\* installed), "error" (the request fails), "unparsable" (the parser raises)
\* or "ok"; a text that is <<>> is a tag the page does not have; image is
\* "none" (no og:image), "error" (the download fails) or "ok"; size is the
\* number of bytes downloaded.
PreviewEnvs ==
    { [PlainPage EXCEPT !.page = "no_library"],
      [PlainPage EXCEPT !.page = "error"],
      [PlainPage EXCEPT !.page = "unparsable"],
      PlainPage,
      [PlainPage EXCEPT !.og_title = <<>>, !.og_description = <<>>],
      [PlainPage EXCEPT !.og_title = <<>>, !.title = <<>>,
                        !.og_description = <<>>, !.description = <<>>],
      [PlainPage EXCEPT !.og_title = LongTitle, !.og_description = LongDescription,
                        !.image = "ok", !.size = MaxThumbBytes + 1],
      [PlainPage EXCEPT !.image = "error"],
      [PlainPage EXCEPT !.image = "ok", !.size = MaxThumbBytes + 1],
      [PlainPage EXCEPT !.image = "ok", !.size = MaxThumbBytes],
      [PlainPage EXCEPT !.image = "ok", !.size = MaxThumbBytes, !.login = FALSE],
      [PlainPage EXCEPT !.image = "ok", !.size = MaxThumbBytes, !.upload = FALSE] }

\* s[:n]
Truncate(s, n) == IF Len(s) <= n THEN s ELSE SubSeq(s, 1, n)

\* _fetch_link_preview: og:title, else the title element, else "".
CardTitle(env) == IF env.og_title # <<>> THEN env.og_title ELSE env.title

\* _fetch_link_preview: og:description, else the meta description, else "".
CardDescription(env) ==
    IF env.og_description # <<>> THEN env.og_description ELSE env.description

\* A variant of the size test that refuses an image of exactly the limit.
ThumbAllowed_Below(size) == size < MaxThumbBytes

\* _fetch_link_preview: "if len(img_resp.content) <= 1000000"
ThumbAllowed(size) == size <= MaxThumbBytes

\* _fetch_link_preview, "Download and upload image": the thumbnail, or None
\* when the page names no image, the download fails, the image is too large,
\* the login fails or the upload fails; every failure is logged here.
FetchThumb(p, env) ==
    IF env.image # "ok" \/ ~ThumbAllowed(env.size)
    THEN [poster |-> p, thumb |-> None, logins |-> 0, uploads |-> 0]
    ELSE LET c == GetClient(p.client, env.login) IN
         IF ~c.ok
         THEN [poster |-> [p EXCEPT !.client = c.client], thumb |-> None,
               logins |-> c.logins, uploads |-> 0]
         ELSE [poster |-> [p EXCEPT !.client = c.client],
               thumb |-> IF env.upload THEN Some("blob") ELSE None,
               logins |-> c.logins, uploads |-> 1]

\* The one element of a singleton: Only({F(x) : x \in {e}}) is F(e), with e
\* evaluated once.
Only(S) == CHOOSE y \in S : TRUE

\* The body of the try of _fetch_link_preview: it raises when the page
\* request or the parse fails, and builds the card otherwise.
BuildCard(p, url, env) ==
    IF env.page # "ok"
    THEN [poster |-> p, raised |-> TRUE, card |-> None, logins |-> 0, uploads |-> 0]
    ELSE Only({ [poster |-> th.poster, raised |-> FALSE,
                 card |-> Some([uri |-> url,
                                title |-> Truncate(CardTitle(env), TitleLimit),
                                description |-> Truncate(CardDescription(env),
                                                         DescriptionLimit),
                                thumb |-> th.thumb]),
                 logins |-> th.logins, uploads |-> th.uploads]
               : th \in {FetchThumb(p, env)} })

\* A variant of _fetch_link_preview without its "except Exception".
FetchLinkPreview_Propagates(p, url, env) ==
    IF env.page = "no_library"
    THEN [poster |-> p, embed |-> None, raised |-> FALSE, logins |-> 0, uploads |-> 0]
    ELSE Only({ [poster |-> b.poster, embed |-> b.card, raised |-> b.raised,
                 logins |-> b.logins, uploads |-> b.uploads]
               : b \in {BuildCard(p, url, env)} })

\* _fetch_link_preview(url): the embed, or None when a library is missing or
\* the body of the try raised.
FetchLinkPreview(p, url, env) ==
    IF env.page = "no_library"
    THEN [poster |-> p, embed |-> None, raised |-> FALSE, logins |-> 0, uploads |-> 0]
    ELSE Only({ [poster |-> b.poster, embed |-> b.card, raised |-> FALSE,
                 logins |-> b.logins, uploads |-> b.uploads]
               : b \in {BuildCard(p, url, env)} })

\* A variant of the text in which a title leaves no room for the game.
RenderText_TitleFirst(stream_title, game_name, stream_url) ==
    "(red) I'm live on Twitch rn come slide!~\n\n"
    \o (IF stream_title # "" THEN "(tv) " \o stream_title \o "\n\n"
        ELSE IF game_name # "" THEN "(pad) Playing " \o game_name \o "\n\n"
        ELSE "")
    \o "#blacksygamers" \o " " \o "#gaming" \o " " \o "#twitch" \o " "
    \o "#streaming" \o "\n\n"
    \o stream_url

\* The text post_live_notification builds: TextBuilder.build_text().
RenderText(stream_title, game_name, stream_url) ==
    "(red) I'm live on Twitch rn come slide!~\n\n"
    \o (IF stream_title # "" /\ game_name # ""
        THEN "(tv) " \o stream_title \o "\n\n(pad) Playing " \o game_name \o "\n\n"
        ELSE IF stream_title # "" THEN "(tv) " \o stream_title \o "\n\n"
        ELSE IF game_name # "" THEN "(pad) Playing " \o game_name \o "\n\n"
        ELSE "")
    \o "#blacksygamers" \o " " \o "#gaming" \o " " \o "#twitch" \o " "
    \o "#streaming" \o "\n\n"
    \o stream_url

\* post_live_notification at time t: the text, the link preview, the post.
\* A title or game that is None or empty is "".
PostLiveNotification(p, t, stream_url, stream_title, game_name, is_manual_override, penv, env) ==
    Only(UNION {
        IF pv.raised
        THEN { [poster |-> pv.poster, result |-> "raise", text |-> text,
                preview |-> pv, post_calls |-> 0, logins |-> pv.logins,
                uploads |-> pv.uploads, sends |-> 0, sent |-> <<>>] }
        ELSE { [poster |-> r.poster, result |-> r.result, text |-> text,
                preview |-> pv, post_calls |-> 1, logins |-> pv.logins + r.logins,
                uploads |-> pv.uploads, sends |-> r.sends, sent |-> r.sent]
               : r \in {Post(pv.poster, t, text, is_manual_override, pv.embed, env)} }
        : text \in {RenderText(stream_title, game_name, stream_url)},
          pv \in {FetchLinkPreview(p, stream_url, penv)} })

---------------------------------------------------------------------------
(* TwitchMonitor *)

MonitorState == [access_token |-> access_token, token_expires_at |-> token_expires_at]

\* What the token endpoint answers to a client-credentials exchange.  A body
\* field that is None is a key the JSON body does not have; expires_type is
\* the JSON type of the expires_in given.
TokenResponses ==
    { [kind |-> "network_error", status |-> 0, token |-> None, expires_in |-> None,
       expires_type |-> "int"],
      [kind |-> "response", status |-> 401, token |-> None, expires_in |-> None,
       expires_type |-> "int"],
      [kind |-> "response", status |-> HttpOk, token |-> None, expires_in |-> Some(3600),
       expires_type |-> "int"],
      [kind |-> "response", status |-> HttpOk, token |-> Some("tokA"),
       expires_in |-> Some(3600), expires_type |-> "int"],
      [kind |-> "response", status |-> HttpOk, token |-> Some("tokB"),
       expires_in |-> None, expires_type |-> "int"],
      [kind |-> "response", status |-> HttpOk, token |-> Some("tokB"),
       expires_in |-> Some(400), expires_type |-> "int"] }

\* Answers whose expires_in is not a number: the string "400", and null.
MalformedTokenResponses ==
    { [kind |-> "response", status |-> HttpOk, token |-> Some("tokC"),
       expires_in |-> Some(400), expires_type |-> "str"],
      [kind |-> "response", status |-> HttpOk, token |-> Some("tokC"),
       expires_in |-> Some(0), expires_type |-> "null"] }

\* The answers to an exchange made on behalf of a status query.
StatusTokenResponses ==
    { r \in TokenResponses :
        r.kind = "network_error" \/ (r.token # None /\ r.expires_in # None) }

\* The entries of a streams response.
E1 == [id |-> "123", title |-> "Test Stream", game_name |-> "Just Chatting"]
E2 == [id |-> "456", title |-> "Other", game_name |-> ""]
E3 == [id |-> "123", title |-> "", game_name |-> "Just Chatting"]
E4 == [id |-> "789", title |-> "", game_name |-> ""]
Entries == {E1, E2, E3, E4}
StreamLists == {<<>>, <<E1>>, <<E2>>}

\* What the streams endpoint answers.
StreamResponsesOf(lists) ==
    { [kind |-> "network_error", status |-> 0, data |-> <<>>],
      [kind |-> "response", status |-> 500, data |-> <<>>] }
    \cup { [kind |-> "response", status |-> HttpOk, data |-> d] : d \in lists }
StreamResponses == StreamResponsesOf(StreamLists)
MonitorStreamResponses == StreamResponsesOf({<<>>, <<E1>>, <<E1, E2>>, <<E2, E1>>})

\* A variant of the reuse test without the safety margin.
TokenFresh_NoMargin(tok, exp, t) ==
    /\ tok # None /\ tok[1] # ""
    /\ exp # None
    /\ t < exp[1]

\* The test of _get_access_token for reusing the cached token at time t.
TokenFresh(tok, exp, t) ==
    /\ tok # None /\ tok[1] # ""
    /\ exp # None
    /\ t < exp[1] - TokenMarginMinutes * 60

\* A variant of _get_access_token that drops the cached credential when the
\* exchange fails.
GetAccessToken_ClearsOnFailure(tok, exp, t, resp) ==
    IF TokenFresh(tok, exp, t)
    THEN [access_token |-> tok, token_expires_at |-> exp, raised |-> FALSE,
          result |-> tok, exchanges |-> 0]
    ELSE IF resp.kind = "network_error" \/ resp.status # HttpOk \/ resp.token = None
    THEN [access_token |-> None, token_expires_at |-> None, raised |-> TRUE,
          result |-> None, exchanges |-> 1]
    ELSE [access_token |-> resp.token,
          token_expires_at |-> Some(t + (IF resp.expires_in = None
                                         THEN DefaultExpiresIn
                                         ELSE resp.expires_in[1])),
          raised |-> FALSE, result |-> resp.token, exchanges |-> 1]

\* _get_access_token at time t; resp is the answer an exchange would get.
\* raised: an exception leaves the call, a TwitchAPIError or, from
\* timedelta(seconds=expires_in) with an expires_in that is no number, after
\* the token was stored, a TypeError.  exchanges: the requests made to the
\* token endpoint.
GetAccessToken(tok, exp, t, resp) ==
    IF TokenFresh(tok, exp, t)
    THEN [access_token |-> tok, token_expires_at |-> exp, raised |-> FALSE,
          result |-> tok, exchanges |-> 0, error |-> "none"]
    ELSE IF resp.kind = "network_error" \/ resp.status # HttpOk \/ resp.token = None
    THEN [access_token |-> tok, token_expires_at |-> exp, raised |-> TRUE,
          result |-> None, exchanges |-> 1, error |-> "TwitchAPIError"]
    ELSE IF resp.expires_in # None /\ resp.expires_type # "int"
    THEN [access_token |-> resp.token, token_expires_at |-> exp, raised |-> TRUE,
          result |-> None, exchanges |-> 1, error |-> "TypeError"]
    ELSE [access_token |-> resp.token,
          token_expires_at |-> Some(t + (IF resp.expires_in = None
                                         THEN DefaultExpiresIn
                                         ELSE resp.expires_in[1])),
          raised |-> FALSE, result |-> resp.token, exchanges |-> 1, error |-> "none"]

\* A variant of the choice of get_stream_info that takes the last entry.
SelectStream_Last(streams) ==
    IF streams # <<>> THEN Some(streams[Len(streams)]) ELSE None

\* get_stream_info: "if streams: ... return streams[0]", else None
SelectStream(streams) ==
    IF streams # <<>> THEN Some(streams[1]) ELSE None

\* get_stream_info at time t: the token, then the streams request.
GetStreamInfo(m, t, tokResp, resp) ==
    LET a == GetAccessToken(m.access_token, m.token_expires_at, t, tokResp)
        m2 == [access_token |-> a.access_token, token_expires_at |-> a.token_expires_at]
    IN  IF a.raised
        THEN [monitor |-> m2, raised |-> TRUE, info |-> None,
              exchanges |-> a.exchanges, requests |-> 0]
        ELSE IF resp.kind = "network_error" \/ resp.status # HttpOk
        THEN [monitor |-> m2, raised |-> TRUE, info |-> None,
              exchanges |-> a.exchanges, requests |-> 1]
        ELSE [monitor |-> m2, raised |-> FALSE,
              info |-> SelectStream(resp.data),
              exchanges |-> a.exchanges, requests |-> 1]

\* is_live at time t
IsLive(m, t, tokResp, resp) ==
    LET r == GetStreamInfo(m, t, tokResp, resp)
    IN  [monitor |-> r.monitor, raised |-> r.raised, live |-> r.info # None,
         exchanges |-> r.exchanges, requests |-> r.requests]

\* A variant of the comparison of has_stream_changed that compares the
\* whole snapshots.
SameStream_WholeSnapshot(last, current) == last = current

\* has_stream_changed: the two snapshots have the same "id".
SameStream(last, current) == last.id = current.id

\* has_stream_changed at time t, with _last_stream_info = last: the snapshot
\* is fetched and compared with the cached one; a TwitchAPIError is logged
\* and the answer is False.
HasStreamChanged(m, last, t, tokResp, resp) ==
    LET r == GetStreamInfo(m, t, tokResp, resp)
    IN  IF r.raised
        THEN [monitor |-> r.monitor, last_stream_info |-> last, result |-> FALSE,
              raised |-> TRUE, info |-> None]
        ELSE IF last = None /\ r.info = None
        THEN [monitor |-> r.monitor, last_stream_info |-> last, result |-> FALSE,
              raised |-> FALSE, info |-> r.info]
        ELSE IF last = None /\ r.info # None
        THEN [monitor |-> r.monitor, last_stream_info |-> r.info, result |-> TRUE,
              raised |-> FALSE, info |-> r.info]
        ELSE IF last # None /\ r.info = None
        THEN [monitor |-> r.monitor, last_stream_info |-> None, result |-> TRUE,
              raised |-> FALSE, info |-> r.info]
        ELSE IF last # None /\ r.info # None /\ ~SameStream(last[1], r.info[1])
        THEN [monitor |-> r.monitor, last_stream_info |-> r.info, result |-> TRUE,
              raised |-> FALSE, info |-> r.info]
        ELSE [monitor |-> r.monitor, last_stream_info |-> last, result |-> FALSE,
              raised |-> FALSE, info |-> r.info]

\* The channel name of the configuration, and str.lower on it.
ConfigUsername == "TestUser"
Lower(name) == IF name = "TestUser" THEN "testuser" ELSE name

\* TwitchMonitor.username, set at construction
MonitorUsername == Lower(ConfigUsername)

\* get_stream_url
GetStreamUrl(username) == "https://twitch.tv/" \o username

\* The title and game _trigger_manual_post gives when the channel is offline.
GenericTitle == "Online!"
GenericGame == "Chatting"

\* _trigger_manual_post: "Fallback URL"
FallbackUrl(twitch_username) == "https://twitch.tv/" \o twitch_username

---------------------------------------------------------------------------
(* Config *)

\* A post template, and the text format() makes of it, is a sequence of
\* words: a brace, the word username, a word of plain text, or the channel
\* name.
TemplateWords == {"{", "}", "username", "Live "}
Placeholder == <<"{", "username", "}">>

\* The template of the tests, and one whose braces are escaped.
TestTemplate == <<"Live ", "{", "username", "}">>
EscapedTemplate == <<"{", "{", "username", "}", "}">>

Templates ==
    UNION { [1..n -> TemplateWords] : n \in 0..MaxTemplateLen }
    \cup {TestTemplate, EscapedTemplate}

\* "sub in s"
Contains(s, sub) ==
    \E i \in 0..(Len(s) - Len(sub)) : SubSeq(s, i + 1, i + Len(sub)) = sub

\* The index of the "}" that closes the replacement field whose name starts
\* at i, or 0 when the string ends first or a "{" comes first.
RECURSIVE FieldEnd(_, _)
FieldEnd(t, i) ==
    IF i > Len(t) \/ t[i] = "{" THEN 0
    ELSE IF t[i] = "}" THEN i
    ELSE FieldEnd(t, i + 1)

\* str.format(username=value) from word i on, after the text out: "{{" and
\* "}}" are the braces, "{username}" is the value, and a single brace, an
\* empty field name or another field name raises (ValueError, IndexError,
\* KeyError).
RECURSIVE Format(_, _, _, _)
Format(t, i, value, out) ==
    IF i > Len(t) THEN [raised |-> FALSE, text |-> out]
    ELSE IF t[i] = "}"
    THEN IF i < Len(t) /\ t[i + 1] = "}"
         THEN Format(t, i + 2, value, Append(out, "}"))
         ELSE [raised |-> TRUE, text |-> <<>>]
    ELSE IF t[i] = "{"
    THEN IF i < Len(t) /\ t[i + 1] = "{"
         THEN Format(t, i + 2, value, Append(out, "{"))
         ELSE IF FieldEnd(t, i + 1) = 0
         THEN [raised |-> TRUE, text |-> <<>>]
         ELSE IF SubSeq(t, i + 1, FieldEnd(t, i + 1) - 1) = <<"username">>
         THEN Format(t, FieldEnd(t, i + 1) + 1, value, Append(out, value))
         ELSE [raised |-> TRUE, text |-> <<>>]
    ELSE Format(t, i + 1, value, Append(out, t[i]))

\* A JSON number, string, boolean or null given for check_interval.
Json(type, value) == [type |-> type, value |-> value]

\* The configuration of the tests.  A section or a field that is None is a
\* key the JSON object does not have.
TestConfig ==
    [twitch |-> Some([username |-> Some("testuser"),
                      client_id |-> Some("test_client_id"),
                      client_secret |-> Some("test_client_secret")]),
     bluesky |-> Some([handle |-> Some("test.bsky.social"),
                       app_password |-> Some("test-password")]),
     settings |-> Some([check_interval |-> Some(Json("int", 60)),
                        post_template |-> Some(TestTemplate)])]

\* The contents a configuration file can have: the test configuration with
\* every template, with a section or a field missing or empty, and with
\* other values for check_interval.
ConfigContents ==
    { [TestConfig EXCEPT !.settings[1].post_template = Some(t)] : t \in Templates }
    \cup { [TestConfig EXCEPT !.twitch = None],
           [TestConfig EXCEPT !.bluesky = None],
           [TestConfig EXCEPT !.settings = None],
           [TestConfig EXCEPT !.twitch[1].username = None],
           [TestConfig EXCEPT !.twitch[1].username = Some("")],
           [TestConfig EXCEPT !.twitch[1].client_secret = Some("")],
           [TestConfig EXCEPT !.bluesky[1].app_password = None],
           [TestConfig EXCEPT !.settings[1].post_template = None],
           [TestConfig EXCEPT !.settings[1].check_interval = None] }
    \cup { [TestConfig EXCEPT !.settings[1].check_interval = Some(v)] :
             v \in { Json("int", 0), Json("int", 29), Json("int", MinCheckInterval),
                     Json("str", 60), Json("float", 60), Json("bool", 1),
                     Json("null", 0) } }

\* What the file system and the JSON parser give load_config.
ConfigFiles ==
    { [state |-> "missing", content |-> TestConfig],
      [state |-> "invalid_json", content |-> TestConfig] }
    \cup { [state |-> "ok", content |-> c] : c \in ConfigContents }

\* "not value", for a string, a template and a check_interval.
EmptyString(v) == v = ""
EmptyTemplate(v) == v = <<>>
EmptyJson(v) == v.type = "null" \/ (v.type \in {"int", "float", "bool"} /\ v.value = 0)

\* _validate_config, the loop over required_fields: a section or a field is
\* missing, or a field is empty.
MissingOrEmpty(c) ==
    \/ c.twitch = None
    \/ \E f \in {"username", "client_id", "client_secret"} :
          c.twitch[1][f] = None \/ EmptyString(c.twitch[1][f][1])
    \/ c.bluesky = None
    \/ \E f \in {"handle", "app_password"} :
          c.bluesky[1][f] = None \/ EmptyString(c.bluesky[1][f][1])
    \/ c.settings = None
    \/ c.settings[1].check_interval = None
    \/ EmptyJson(c.settings[1].check_interval[1])
    \/ c.settings[1].post_template = None
    \/ EmptyTemplate(c.settings[1].post_template[1])

\* _validate_config: "not isinstance(check_interval, int) or check_interval < 30";
\* a bool is an int.
BadInterval(v) == v.type \notin {"int", "bool"} \/ v.value < MinCheckInterval

\* _validate_config: whether it raises ConfigurationError, and whether it
\* warns about a template without the placeholder.
ValidateConfig(c) ==
    IF MissingOrEmpty(c) THEN [raised |-> TRUE, warned |-> FALSE]
    ELSE IF BadInterval(c.settings[1].check_interval[1])
    THEN [raised |-> TRUE, warned |-> FALSE]
    ELSE [raised |-> FALSE,
          warned |-> ~Contains(c.settings[1].post_template[1], Placeholder)]

\* load_config on a Config whose _config is cur: the file is read into
\* _config, and then validated.
LoadConfig(cur, file) ==
    IF file.state # "ok" THEN [config |-> cur, raised |-> TRUE, warned |-> FALSE]
    ELSE [config |-> file.content,
          raised |-> ValidateConfig(file.content).raised,
          warned |-> ValidateConfig(file.content).warned]

\* get_formatted_post: post_template.format(username=twitch_username); a
\* key _config does not have raises KeyError.
GetFormattedPost(c) ==
    IF \/ c.settings = None \/ c.settings[1].post_template = None
       \/ c.twitch = None \/ c.twitch[1].username = None
    THEN [raised |-> TRUE, text |-> <<>>]
    ELSE Format(c.settings[1].post_template[1], 1, c.twitch[1].username[1], <<>>)

\* Config.__init__: "self._config = {}"
EmptyConfig == [twitch |-> None, bluesky |-> None, settings |-> None]

---------------------------------------------------------------------------
(* The state after construction: LiveBot.__init__, TwitchMonitor.__init__ *)
(* and BlueSkyPoster.__init__.                                            *)

NoCall == [op |-> "none", outcome |-> "none"]
NoTick == [once |-> FALSE, pre |-> FALSE, cur |-> "none", snap |-> "none",
           info |-> None, pub_calls |-> 0, pub |-> None, pub_result |-> "none",
           after |-> "none", late |-> FALSE]
NoneSeen == [last |-> "none", runs |-> 0, pubs |-> 0, failed_pub |-> FALSE,
             signal |-> FALSE]
NoManual == [pc |-> "off", n |-> 0, snap |-> "none", info |-> None, pub |-> None,
             pub_result |-> "none"]
NoWait == [pc |-> "idle", start_time |-> 0, check_interval |-> 0, max_duration |-> 0,
           last |-> "none", result |-> "none"]
NewMock == [last_post_content |-> None, last_post_time |-> None,
            posted_messages |-> <<>>]

Init ==
    /\ now = 0
    /\ nAdv = 0
    /\ access_token = None
    /\ token_expires_at = None
    /\ client = None
    /\ last_post_content = None
    /\ last_post_time = None
    /\ last_live_status = FALSE
    /\ running = FALSE
    /\ pc = "start"
    /\ tick = NoTick
    /\ seen = NoneSeen
    /\ call = NoCall
    /\ prevCall = NoCall
    /\ published = <<>>
    /\ manual = NoManual
    /\ config = None
    /\ last_stream_info = None
    /\ wait = NoWait
    /\ mock = NewMock

clockVars == <<now, nAdv>>
monitorVars == <<access_token, token_expires_at>>
posterVars == <<client, last_post_content, last_post_time>>
botVars == <<last_live_status, running, pc, tick, seen, manual>>

\* State of the operations that run and run_once never call.
apiVars == <<config, last_stream_info, wait, mock>>

\* Time passes between two calls.
Advance(steps) ==
    \E d \in steps :
        /\ nAdv < MaxAdvances
        /\ now' = now + d
        /\ nAdv' = nAdv + 1
        /\ call' = NoCall
        /\ UNCHANGED <<monitorVars, posterVars, botVars, prevCall, published, apiVars>>

---------------------------------------------------------------------------
(* BlueSkyPoster driven by any sequence of post calls *)

PostTexts == {"Test duplicate", "Test post"}
Embeds == {None, Some("card")}

\* The last MaxPublished entries of the posts sent so far.
Recent(sq) ==
    IF Len(sq) <= MaxPublished THEN sq
    ELSE SubSeq(sq, Len(sq) - MaxPublished + 1, Len(sq))

CallPost ==
    \E text \in PostTexts, force \in BOOLEAN, embed \in Embeds, env \in PosterEnvs :
    \E r \in {Post(PosterState, now, text, force, embed, env)} :
        /\ client' = r.poster.client
        /\ last_post_content' = r.poster.last_post_content
        /\ last_post_time' = r.poster.last_post_time
        /\ published' = Recent(published \o [i \in 1..Len(r.sent) |->
                                 [text |-> r.sent[i].text, time |-> r.sent[i].time]])
        /\ call' = [op |-> "post", outcome |-> r.result, prev |-> prevCall,
                    text |-> text, force |-> force, before |-> published,
                    login_ok |-> (client # None \/ env.login), send_ok |-> env.send,
                    logins |-> r.logins, sends |-> r.sends]
        /\ prevCall' = [op |-> "post", outcome |-> r.result]
        /\ UNCHANGED <<clockVars, monitorVars, botVars, apiVars>>

AdvancePoster == Advance(PosterSteps)

NextPoster == CallPost \/ AdvancePoster

SpecPoster == Init /\ [][NextPoster]_vars

---------------------------------------------------------------------------
(* BlueSkyPoster driven by post and reset_duplicate_tracking calls *)

CallResetDuplicateTracking ==
    \E r \in {ResetDuplicateTracking(PosterState)} :
        /\ client' = r.client
        /\ last_post_content' = r.last_post_content
        /\ last_post_time' = r.last_post_time
        /\ call' = [op |-> "reset_duplicate_tracking", outcome |-> "ok"]
        /\ UNCHANGED <<clockVars, monitorVars, botVars, prevCall, published, apiVars>>

NextRecord == CallPost \/ CallResetDuplicateTracking \/ AdvancePoster

SpecRecord == Init /\ [][NextRecord]_vars

---------------------------------------------------------------------------
(* BlueSkyPoster driven by any sequence of post_live_notification calls *)

\* The titles and games of the snapshots, "" where the snapshot has none, and
\* the URLs the bot gives.
NotifyTitles == {e.title : e \in Entries}
NotifyGames == {e.game_name : e \in Entries}
NotifyUrls == {GetStreamUrl(MonitorUsername), FallbackUrl(ConfigUsername)}

\* The calls made: every title, game and URL with the plain page, and the
\* first snapshot's with every behaviour of the page, the image and the blob
\* store.
NotifyInputs ==
    { [stream_title |-> ti, game_name |-> g, stream_url |-> u, penv |-> PlainPage]
        : ti \in NotifyTitles, g \in NotifyGames, u \in NotifyUrls }
    \cup { [stream_title |-> E1.title, game_name |-> E1.game_name,
            stream_url |-> GetStreamUrl(MonitorUsername), penv |-> e]
             : e \in PreviewEnvs }

CallPostLiveNotification ==
    \E in \in NotifyInputs, is_manual_override \in BOOLEAN, env \in PosterEnvs :
    \E r \in {PostLiveNotification(PosterState, now, in.stream_url, in.stream_title,
                                   in.game_name, is_manual_override, in.penv, env)} :
        /\ client' = r.poster.client
        /\ last_post_content' = r.poster.last_post_content
        /\ last_post_time' = r.poster.last_post_time
        /\ call' = [op |-> "post_live_notification", outcome |-> r.result,
                    stream_title |-> in.stream_title, game_name |-> in.game_name,
                    stream_url |-> in.stream_url, text |-> r.text,
                    session |-> (client # None), penv |-> in.penv,
                    embed |-> r.preview.embed, preview_raised |-> r.preview.raised,
                    post_calls |-> r.post_calls, uploads |-> r.uploads,
                    logins |-> r.logins, sends |-> r.sends,
                    login_results |->
                        (IF r.preview.logins = 1 THEN <<in.penv.login>> ELSE <<>>)
                        \o (IF r.logins > r.preview.logins THEN <<env.login>> ELSE <<>>)]
        /\ UNCHANGED <<clockVars, monitorVars, botVars, prevCall, published, apiVars>>

NextNotify == CallPostLiveNotification

SpecNotify == Init /\ [][NextNotify]_vars

---------------------------------------------------------------------------
(* TwitchMonitor driven by any sequence of calls *)

\* How a call's _get_access_token went.
TokenOutcome(raised, exchanges) ==
    IF exchanges = 0 THEN "reused" ELSE IF raised THEN "raise" ELSE "exchanged"

CallGetAccessToken ==
    \E resp \in TokenResponses :
    \E r \in {GetAccessToken(access_token, token_expires_at, now, resp)} :
        /\ access_token' = r.access_token
        /\ token_expires_at' = r.token_expires_at
        /\ call' = [op |-> "get_token", outcome |-> TokenOutcome(r.raised, r.exchanges),
                    prev |-> prevCall, before |-> MonitorState, result |-> r.result,
                    exchanges |-> r.exchanges,
                    response |-> IF r.exchanges = 0 THEN None ELSE Some(resp)]
        /\ prevCall' = [op |-> "get_token", outcome |-> TokenOutcome(r.raised, r.exchanges)]
        /\ UNCHANGED <<clockVars, posterVars, botVars, published, apiVars>>

CallGetStreamInfo ==
    \E tokResp \in StatusTokenResponses, resp \in MonitorStreamResponses :
    \E r \in {GetStreamInfo(MonitorState, now, tokResp, resp)} :
        /\ access_token' = r.monitor.access_token
        /\ token_expires_at' = r.monitor.token_expires_at
        /\ call' = [op |-> "get_stream_info",
                    outcome |-> TokenOutcome(r.requests = 0, r.exchanges),
                    prev |-> prevCall,
                    exchanges |-> r.exchanges, raised |-> r.raised,
                    response |-> IF r.requests = 0 THEN None ELSE Some(resp),
                    info |-> r.info]
        /\ prevCall' = [op |-> "get_token",
                        outcome |-> TokenOutcome(r.requests = 0, r.exchanges)]
        /\ UNCHANGED <<clockVars, posterVars, botVars, published, apiVars>>

CallIsLive ==
    \E tokResp \in StatusTokenResponses, resp \in MonitorStreamResponses :
    \E r \in {IsLive(MonitorState, now, tokResp, resp)} :
        /\ access_token' = r.monitor.access_token
        /\ token_expires_at' = r.monitor.token_expires_at
        /\ call' = [op |-> "is_live",
                    outcome |-> TokenOutcome(r.requests = 0, r.exchanges),
                    prev |-> prevCall,
                    exchanges |-> r.exchanges, raised |-> r.raised,
                    response |-> IF r.requests = 0 THEN None ELSE Some(resp),
                    live |-> r.live]
        /\ prevCall' = [op |-> "get_token",
                        outcome |-> TokenOutcome(r.requests = 0, r.exchanges)]
        /\ UNCHANGED <<clockVars, posterVars, botVars, published, apiVars>>

AdvanceMonitor == Advance(MonitorSteps)

NextMonitor == CallGetAccessToken \/ CallGetStreamInfo \/ CallIsLive \/ AdvanceMonitor

SpecMonitor == Init /\ [][NextMonitor]_vars

---------------------------------------------------------------------------
(* The token cache driven by any sequence of _get_access_token calls, with *)
(* every answer of the token endpoint                                      *)

\* The exchange of the call, when the call returned its token: the most
\* recent exchange that succeeded.
LastExchange(r, resp, t, last) ==
    IF r.exchanges = 1 /\ ~r.raised
    THEN Some([token |-> resp.token[1], time |-> t, expires_in |-> resp.expires_in])
    ELSE last

CallGetAccessTokenAnyAnswer ==
    \E resp \in TokenResponses \cup MalformedTokenResponses :
    \E r \in {GetAccessToken(access_token, token_expires_at, now, resp)} :
        /\ access_token' = r.access_token
        /\ token_expires_at' = r.token_expires_at
        /\ call' = [op |-> "get_token", outcome |-> TokenOutcome(r.raised, r.exchanges),
                    error |-> r.error, before |-> MonitorState]
        /\ prevCall' = [op |-> "get_token",
                        outcome |-> TokenOutcome(r.raised, r.exchanges),
                        exchange |-> LastExchange(r, resp, now,
                                         IF prevCall = NoCall THEN None
                                         ELSE prevCall.exchange)]
        /\ UNCHANGED <<clockVars, posterVars, botVars, published, apiVars>>

NextToken == CallGetAccessTokenAnyAnswer \/ AdvanceMonitor

SpecToken == Init /\ [][NextToken]_vars

---------------------------------------------------------------------------
(* Config driven by a construction and any sequence of calls *)

Raised(raised) == IF raised THEN "raise" ELSE "ok"

\* Config(config_file): the object exists when load_config did not raise.
ConstructConfig ==
    /\ config = None
    /\ \E file \in ConfigFiles :
       \E r \in {LoadConfig(EmptyConfig, file)} :
          /\ config' = IF r.raised THEN None ELSE Some(r.config)
          /\ call' = [op |-> "load_config", outcome |-> Raised(r.raised),
                      warned |-> r.warned]
    /\ UNCHANGED <<clockVars, monitorVars, posterVars, botVars, prevCall, published,
                   last_stream_info, wait, mock>>

CallReloadConfig ==
    /\ config # None
    /\ \E file \in ConfigFiles :
       \E r \in {LoadConfig(config[1], file)} :
          /\ config' = Some(r.config)
          /\ call' = [op |-> "reload_config", outcome |-> Raised(r.raised),
                      warned |-> r.warned]
    /\ UNCHANGED <<clockVars, monitorVars, posterVars, botVars, prevCall, published,
                   last_stream_info, wait, mock>>

CallGetFormattedPost ==
    /\ config # None
    /\ \E r \in {GetFormattedPost(config[1])} :
          call' = [op |-> "get_formatted_post", outcome |-> Raised(r.raised),
                   text |-> r.text]
    /\ UNCHANGED <<clockVars, monitorVars, posterVars, botVars, prevCall, published,
                   apiVars>>

NextConfig == ConstructConfig \/ CallReloadConfig \/ CallGetFormattedPost

SpecConfig == Init /\ [][NextConfig]_vars

---------------------------------------------------------------------------
(* TwitchMonitor driven by any sequence of has_stream_changed calls *)

\* The answers of the streams endpoint: offline, a stream, the same stream
\* under another title, and another stream.
ChangeStreamResponses == StreamResponsesOf({<<>>, <<E1>>, <<E3>>, <<E2>>})

CallHasStreamChanged ==
    \E tokResp \in StatusTokenResponses, resp \in ChangeStreamResponses :
    \E r \in {HasStreamChanged(MonitorState, last_stream_info, now, tokResp, resp)} :
        /\ access_token' = r.monitor.access_token
        /\ token_expires_at' = r.monitor.token_expires_at
        /\ last_stream_info' = r.last_stream_info
        /\ call' = [op |-> "has_stream_changed", outcome |-> Raised(r.raised),
                    result |-> r.result, before |-> last_stream_info,
                    info |-> r.info]
        /\ UNCHANGED <<clockVars, posterVars, botVars, prevCall, published, config,
                       wait, mock>>

NextChange == CallHasStreamChanged \/ AdvanceMonitor

SpecChange == Init /\ [][NextChange]_vars

---------------------------------------------------------------------------
(* TwitchMonitor.wait_for_live *)

\* The arguments of wait_for_live: the default interval and a shorter one,
\* no limit and a limit.
WaitIntervals == {30, 60}
WaitDurations == {0, 100}

\* wait_for_live(check_interval, max_duration): "start_time = time.time()"
WaitStart ==
    /\ wait.pc \in {"idle", "done"}
    /\ \E check_interval \in WaitIntervals, max_duration \in WaitDurations :
          wait' = [NoWait EXCEPT !.pc = "check", !.start_time = now,
                                 !.check_interval = check_interval,
                                 !.max_duration = max_duration]
    /\ UNCHANGED <<clockVars, monitorVars, posterVars, botVars, call, prevCall,
                   published, config, last_stream_info, mock>>

\* wait_for_live: "if max_duration > 0 and time.time() - start_time > max_duration"
TimedOut(w, t) == w.max_duration > 0 /\ t - w.start_time > w.max_duration

\* One pass of the loop up to its sleep: is_live, and the timeout test when
\* is_live returned False.  When is_live raises TwitchAPIError the except
\* branch logs and sleeps; it does not test the timeout.
WaitCheck ==
    /\ wait.pc = "check"
    /\ \E tokResp \in StatusTokenResponses, resp \in StreamResponses :
       \E r \in {IsLive(MonitorState, now, tokResp, resp)} :
          /\ access_token' = r.monitor.access_token
          /\ token_expires_at' = r.monitor.token_expires_at
          /\ wait' = IF r.raised
                     THEN [wait EXCEPT !.pc = "sleep", !.last = "error"]
                     ELSE IF r.live
                     THEN [wait EXCEPT !.pc = "done", !.last = "live",
                                       !.result = "true"]
                     ELSE IF TimedOut(wait, now)
                     THEN [wait EXCEPT !.pc = "done", !.last = "offline",
                                       !.result = "false"]
                     ELSE [wait EXCEPT !.pc = "sleep", !.last = "offline"]
    /\ UNCHANGED <<clockVars, posterVars, botVars, call, prevCall, published, config,
                   last_stream_info, mock>>

\* wait_for_live: time.sleep(check_interval)
WaitSleep ==
    /\ wait.pc = "sleep"
    /\ nAdv < MaxAdvances
    /\ now' = now + wait.check_interval
    /\ nAdv' = nAdv + 1
    /\ wait' = [wait EXCEPT !.pc = "check"]
    /\ UNCHANGED <<monitorVars, posterVars, botVars, call, prevCall, published, config,
                   last_stream_info, mock>>

NextWait == WaitStart \/ WaitCheck \/ WaitSleep

SpecWait == Init /\ [][NextWait]_vars

---------------------------------------------------------------------------
(* LiveBot: main, run and run_once *)

\* The answers of the token endpoint to the bot: a failure, or a token of the
\* default lifetime.
BotTokenResponses ==
    { r \in StatusTokenResponses :
        r.kind = "network_error" \/ r.expires_in = Some(DefaultExpiresIn) }

ConnectionEnvs == [login : BOOLEAN, profile : BOOLEAN]

\* A variant of the comparison of run_once that reacts to the level.
StatusChanged_Level(current, last) == current \/ current # last

\* run_once: "if current_live_status != self._last_live_status"
StatusChanged(current, last) == current # last

\* A variant in which the return of run_once ends run.
AfterTick_Exits == "exit"

\* Where the main thread goes when run_once returns.
AfterTick == IF tick.once THEN "exit" ELSE "sleep"

\* A status result a tick saw: a run of live results begins when the result
\* before it was not live.
See(status) ==
    [seen EXCEPT !.last = status,
                 !.runs = IF status = "live" /\ seen.last # "live" THEN @ + 1 ELSE @,
                 !.failed_pub = IF status = "offline" THEN FALSE ELSE @]

\* How a run_once ended: on which of its remote calls it met an error it
\* logged, if any.
TickOutcome(t) ==
    IF t.cur = "none" THEN "none"
    ELSE IF t.cur = "error" THEN "status_error"
    ELSE IF t.snap = "error" THEN "snapshot_error"
    ELSE IF t.pub_result = "raise" THEN "publish_error"
    ELSE "ok"

\* main with --once: one run_once on the bot as constructed.
MainOnce ==
    /\ pc = "start"
    /\ pc' = "tick_check"
    /\ tick' = [NoTick EXCEPT !.once = TRUE, !.pre = last_live_status]
    /\ UNCHANGED <<clockVars, monitorVars, posterVars, last_live_status, running,
                   seen, call, prevCall, published, manual, apiVars>>

\* run: test_connections, which aborts the run when either side fails.
RunTestConnections ==
    /\ pc = "start"
    /\ \E tokResp \in BotTokenResponses, resp \in StreamResponses,
          env \in ConnectionEnvs :
       \E r \in {IsLive(MonitorState, now, tokResp, resp)} :
       \E c \in {TestConnection(PosterState, env)} :
          /\ access_token' = r.monitor.access_token
          /\ token_expires_at' = r.monitor.token_expires_at
          /\ IF r.raised
             THEN pc' = "exit" /\ UNCHANGED posterVars
             ELSE /\ client' = c.poster.client
                  /\ UNCHANGED <<last_post_content, last_post_time>>
                  /\ pc' = IF c.ok THEN "initial_status" ELSE "exit"
    /\ UNCHANGED <<clockVars, last_live_status, running, tick, seen, call,
                   prevCall, published, manual, apiVars>>

\* A variant of the initial status that keeps the constructor's OFFLINE.
InitialStatus_Constructed(raised, live) == FALSE

\* run: "self._last_live_status = self.twitch_monitor.is_live()", and False
\* when is_live raises TwitchAPIError.
InitialStatus(raised, live) == IF raised THEN FALSE ELSE live

\* run: the initial status, then running = True and the registration of the
\* hotkey, whose failure is logged.
RunInitialStatus ==
    /\ pc = "initial_status"
    /\ \E tokResp \in BotTokenResponses, resp \in StreamResponses :
       \E r \in {IsLive(MonitorState, now, tokResp, resp)} :
          /\ access_token' = r.monitor.access_token
          /\ token_expires_at' = r.monitor.token_expires_at
          /\ last_live_status' = InitialStatus(r.raised, r.live)
          /\ seen' = IF r.raised THEN seen
                     ELSE [seen EXCEPT !.last = IF r.live THEN "live" ELSE "offline"]
    /\ running' = TRUE
    /\ \E registered \in BOOLEAN :
          manual' = [manual EXCEPT !.pc = IF registered THEN "idle" ELSE "off"]
    /\ pc' = "loop"
    /\ UNCHANGED <<clockVars, posterVars, tick, call, prevCall, published, apiVars>>

\* run: "while self.running", and the start of run_once.
LoopCheck ==
    /\ pc = "loop"
    /\ IF running
       THEN /\ pc' = "tick_check"
            /\ tick' = [NoTick EXCEPT !.pre = last_live_status,
                                      !.after = TickOutcome(tick),
                                      !.late = seen.signal]
       ELSE /\ pc' = "exit"
            /\ UNCHANGED tick
    /\ UNCHANGED <<clockVars, monitorVars, posterVars, last_live_status, running,
                   seen, call, prevCall, published, manual, apiVars>>

\* run_once: is_live and the comparison with the stored status.
TickCheck ==
    /\ pc = "tick_check"
    /\ \E tokResp \in BotTokenResponses, resp \in StreamResponses :
       \E r \in {IsLive(MonitorState, now, tokResp, resp)} :
          /\ access_token' = r.monitor.access_token
          /\ token_expires_at' = r.monitor.token_expires_at
          /\ IF r.raised
             THEN /\ tick' = [tick EXCEPT !.cur = "error"]
                  /\ pc' = AfterTick
                  /\ UNCHANGED <<last_live_status, seen>>
             ELSE IF ~StatusChanged(r.live, last_live_status)
             THEN /\ tick' = [tick EXCEPT !.cur = IF r.live THEN "live" ELSE "offline"]
                  /\ seen' = See(IF r.live THEN "live" ELSE "offline")
                  /\ pc' = AfterTick
                  /\ UNCHANGED last_live_status
             ELSE IF r.live
             THEN /\ tick' = [tick EXCEPT !.cur = "live"]
                  /\ seen' = See("live")
                  /\ pc' = "tick_snapshot"
                  /\ UNCHANGED last_live_status
             ELSE /\ tick' = [tick EXCEPT !.cur = "offline"]
                  /\ seen' = See("offline")
                  /\ last_live_status' = r.live
                  /\ pc' = AfterTick
    /\ UNCHANGED <<clockVars, posterVars, running, call, prevCall, published, manual,
                   apiVars>>

\* _handle_went_live: get_stream_info.  When it raises or returns None the
\* handler logs and returns, and run_once stores the live status.
TickSnapshot ==
    /\ pc = "tick_snapshot"
    /\ \E tokResp \in BotTokenResponses, resp \in StreamResponses :
       \E r \in {GetStreamInfo(MonitorState, now, tokResp, resp)} :
          /\ access_token' = r.monitor.access_token
          /\ token_expires_at' = r.monitor.token_expires_at
          /\ IF r.raised \/ r.info = None
             THEN /\ tick' = [tick EXCEPT !.snap = IF r.raised THEN "error" ELSE "empty"]
                  /\ last_live_status' = TRUE
                  /\ pc' = AfterTick
             ELSE /\ tick' = [tick EXCEPT !.snap = "ok", !.info = r.info]
                  /\ pc' = "tick_publish"
                  /\ UNCHANGED last_live_status
    /\ UNCHANGED <<clockVars, posterVars, running, seen, call, prevCall, published, manual,
                   apiVars>>

\* A variant of run_once that stores the new status only when the handler
\* published.
StoredAfterHandler_IfPublished(current_live_status, result) ==
    current_live_status /\ result = "true"

\* run_once: "self._last_live_status = current_live_status", after the
\* handler, whatever the handler's publish did.
StoredAfterHandler(current_live_status, result) == current_live_status

\* _handle_went_live: post_live_notification, whose BlueSkyPostError the
\* handler logs; run_once then stores the live status.
TickPublish ==
    /\ pc = "tick_publish"
    /\ \E penv \in PreviewEnvs, env \in PosterEnvs :
       \E r \in {PostLiveNotification(PosterState, now, GetStreamUrl(MonitorUsername),
                                      tick.info[1].title, tick.info[1].game_name,
                                      FALSE, penv, env)} :
          /\ client' = r.poster.client
          /\ last_post_content' = r.poster.last_post_content
          /\ last_post_time' = r.poster.last_post_time
          /\ tick' = [tick EXCEPT !.pub_calls = @ + 1,
                                  !.pub = Some([force |-> FALSE,
                                                stream_url |-> GetStreamUrl(MonitorUsername),
                                                stream_title |-> tick.info[1].title,
                                                game_name |-> tick.info[1].game_name]),
                                  !.pub_result = r.result]
          /\ seen' = [seen EXCEPT !.pubs = @ + 1,
                                  !.failed_pub = (r.result = "raise")]
          /\ last_live_status' = StoredAfterHandler(TRUE, r.result)
    /\ pc' = AfterTick
    /\ UNCHANGED <<clockVars, monitorVars, running, call, prevCall, published, manual,
                   apiVars>>

\* run: time.sleep(check_interval); the next tick starts d seconds after this
\* one did.
Sleep ==
    /\ pc = "sleep"
    /\ nAdv < MaxSleeps
    /\ \E d \in BotSteps : now' = now + d
    /\ nAdv' = nAdv + 1
    /\ pc' = "loop"
    /\ UNCHANGED <<monitorVars, posterVars, last_live_status, running, tick, seen,
                   call, prevCall, published, manual, apiVars>>

\* What the streams endpoint answers to the hotkey callback.
ManualStreamResponses == StreamResponsesOf({<<>>, <<E1>>})

\* The arguments _trigger_manual_post gives post_live_notification for the
\* snapshot it fetched.
ManualArgs(info) ==
    IF info # None
    THEN [force |-> TRUE, stream_url |-> GetStreamUrl(MonitorUsername),
          stream_title |-> info[1].title, game_name |-> info[1].game_name]
    ELSE [force |-> TRUE, stream_url |-> FallbackUrl(ConfigUsername),
          stream_title |-> GenericTitle, game_name |-> GenericGame]

\* The hotkey fires while run is in its loop, and the callback, on the
\* listener's thread, calls get_stream_info.  A TwitchAPIError ends the
\* callback with a log line.
ManualSnapshot ==
    /\ manual.pc = "idle"
    /\ manual.n < MaxManual
    /\ pc # "exit"
    /\ \E tokResp \in BotTokenResponses, resp \in ManualStreamResponses :
       \E r \in {GetStreamInfo(MonitorState, now, tokResp, resp)} :
          /\ access_token' = r.monitor.access_token
          /\ token_expires_at' = r.monitor.token_expires_at
          /\ manual' = [NoManual EXCEPT
                           !.pc = IF r.raised THEN "idle" ELSE "publish",
                           !.n = manual.n + 1,
                           !.snap = IF r.raised THEN "error"
                                    ELSE IF r.info = None THEN "empty" ELSE "ok",
                           !.info = r.info]
    /\ UNCHANGED <<clockVars, posterVars, last_live_status, running, pc, tick, seen,
                   call, prevCall, published, apiVars>>

\* _trigger_manual_post: post_live_notification with is_manual_override=True,
\* whose BlueSkyPostError the callback logs.
ManualPublish ==
    /\ manual.pc = "publish"
    /\ pc # "exit"
    /\ \E penv \in PreviewEnvs, env \in PosterEnvs :
       \E a \in {ManualArgs(manual.info)} :
       \E r \in {PostLiveNotification(PosterState, now, a.stream_url, a.stream_title,
                                      a.game_name, a.force, penv, env)} :
          /\ client' = r.poster.client
          /\ last_post_content' = r.poster.last_post_content
          /\ last_post_time' = r.poster.last_post_time
          /\ manual' = [manual EXCEPT !.pc = "idle", !.pub = Some(a),
                                      !.pub_result = r.result]
    /\ UNCHANGED <<clockVars, monitorVars, last_live_status, running, pc, tick, seen,
                   call, prevCall, published, apiVars>>

\* _signal_handler, on SIGINT or SIGTERM, at any moment of the process.
Signal ==
    /\ pc # "exit"
    /\ running \/ ~seen.signal
    /\ running' = FALSE
    /\ seen' = [seen EXCEPT !.signal = TRUE]
    /\ UNCHANGED <<clockVars, monitorVars, posterVars, last_live_status, pc, tick,
                   call, prevCall, published, manual, apiVars>>

Next ==
    \/ MainOnce
    \/ RunTestConnections
    \/ RunInitialStatus
    \/ LoopCheck
    \/ TickCheck
    \/ TickSnapshot
    \/ TickPublish
    \/ Sleep
    \/ ManualSnapshot
    \/ ManualPublish
    \/ Signal

Spec == Init /\ [][Next]_vars

---------------------------------------------------------------------------
(* BlueSkyPoster driven by any sequence of publish, link-preview and *)
(* connection-test calls                                             *)

CallFetchLinkPreview ==
    \E penv \in PreviewEnvs :
    \E r \in {FetchLinkPreview(PosterState, GetStreamUrl(MonitorUsername), penv)} :
        /\ client' = r.poster.client
        /\ last_post_content' = r.poster.last_post_content
        /\ last_post_time' = r.poster.last_post_time
        /\ call' = [op |-> "fetch_link_preview", outcome |-> Raised(r.raised),
                    session |-> (client # None), penv |-> penv,
                    logins |-> r.logins,
                    login_results |-> IF r.logins = 1 THEN <<penv.login>> ELSE <<>>]
        /\ UNCHANGED <<clockVars, monitorVars, botVars, prevCall, published, apiVars>>

CallTestConnection ==
    \E env \in ConnectionEnvs :
    \E r \in {TestConnection(PosterState, env)} :
        /\ client' = r.poster.client
        /\ last_post_content' = r.poster.last_post_content
        /\ last_post_time' = r.poster.last_post_time
        /\ call' = [op |-> "test_connection", outcome |-> IF r.ok THEN "true" ELSE "false",
                    session |-> (client # None), logins |-> r.logins,
                    login_results |-> IF r.logins = 1 THEN <<env.login>> ELSE <<>>]
        /\ UNCHANGED <<clockVars, monitorVars, botVars, prevCall, published, apiVars>>

NextSession == CallPostLiveNotification \/ CallFetchLinkPreview \/ CallTestConnection

SpecSession == Init /\ [][NextSession]_vars

---------------------------------------------------------------------------
(* A BlueSkyPoster whose login and send succeed and a MockBlueSkyPoster, *)
(* given the same post calls under the same clock                       *)

PlatformUp == [login |-> TRUE, send |-> TRUE]

CallPostOnBoth ==
    /\ Len(mock.posted_messages) < MaxPublished
    /\ \E text \in PostTexts, force \in BOOLEAN, embed \in Embeds :
       \E r \in {Post(PosterState, now, text, force, embed, PlatformUp)} :
       \E m \in {MockPost(mock, now, text, force, embed)} :
          /\ client' = r.poster.client
          /\ last_post_content' = r.poster.last_post_content
          /\ last_post_time' = r.poster.last_post_time
          /\ mock' = m.mock
          /\ published' = Recent(published \o [i \in 1..Len(r.sent) |->
                                   [text |-> r.sent[i].text, time |-> r.sent[i].time]])
          /\ call' = [op |-> "post_on_both", outcome |-> r.result,
                      mock_outcome |-> m.result, text |-> text, force |-> force]
    /\ UNCHANGED <<clockVars, monitorVars, botVars, prevCall, config,
                   last_stream_info, wait>>

NextMock == CallPostOnBoth \/ AdvancePoster

SpecMock == Init /\ [][NextMock]_vars

---------------------------------------------------------------------------
(* Properties of BlueSkyPoster.post, under SpecPoster *)

IsPost == call.op = "post"

\* The most recent post sent before the call.
LastSent == call.before[Len(call.before)]

\* The call's text is that of the most recent post sent before it.
RepeatsLast == call.before # <<>> /\ LastSent.text = call.text

\* C2: an unforced post whose text equals the text of the most recent
\* successful post returns false while less than 7200 seconds have passed
\* since that post (7199 included), and from 7200 seconds on it is sent, and
\* returns true when login and send succeed.
C2_DuplicateWindow ==
    (IsPost /\ ~call.force /\ RepeatsLast) =>
        /\ (now - LastSent.time <= 7199) =>
               (call.outcome = "false" /\ call.sends = 0)
        /\ (now - LastSent.time >= 7200) =>
               /\ call.outcome # "false"
               /\ call.login_ok => call.sends = 1
               /\ (call.login_ok /\ call.send_ok) => call.outcome = "true"

\* A repeat is sent at exactly 7200 seconds, after it was refused at 7199.
C2_Witness ==
    /\ IsPost /\ ~call.force /\ RepeatsLast
    /\ now - LastSent.time = 7200
    /\ call.outcome = "true"
    /\ call.prev = [op |-> "post", outcome |-> "false"]

\* C3: a post with force = true is never suppressed as a duplicate, whatever
\* the last text and the time passed: it is sent, and returns true when the
\* send succeeds.
C3_ForceBypasses ==
    (IsPost /\ call.force) =>
        /\ call.outcome # "false"
        /\ call.login_ok => call.sends = 1
        /\ (call.login_ok /\ call.send_ok) => call.outcome = "true"

\* A forced repeat of the post just sent, with no time passed, is sent.
C3_Witness ==
    /\ IsPost /\ call.force /\ RepeatsLast
    /\ now = LastSent.time
    /\ call.outcome = "true"

\* C4: only the most recent successful post is compared: an unforced post
\* whose text differs from it is not suppressed, also when the same text was
\* sent earlier, within the last 7200 seconds.
C4_SingleSlot ==
    (IsPost /\ ~call.force /\ call.before # <<>> /\ LastSent.text # call.text) =>
        /\ call.outcome # "false"
        /\ call.login_ok => call.sends = 1
        /\ (call.login_ok /\ call.send_ok) => call.outcome = "true"

\* After A and then B, an unforced A within 7200 seconds of the first is sent.
C4_Witness ==
    /\ IsPost /\ ~call.force
    /\ Len(call.before) = 2
    /\ call.before[1].text = call.text
    /\ call.before[2].text # call.text
    /\ now - call.before[1].time < 7200
    /\ call.outcome = "true"

\* The call is an unforced repeat of the most recent post, inside the window.
IsSuppressible ==
    ~call.force /\ RepeatsLast /\ now - LastSent.time < 7200

\* C5: a suppressed duplicate returns false without raising, logging in or
\* sending; post raises only when the login or the send fails, and returns
\* true in every other case.
C5_Outcomes ==
    IsPost =>
        /\ IsSuppressible =>
               /\ call.outcome = "false"
               /\ call.logins = 0 /\ call.sends = 0
               /\ published = call.before
        /\ call.outcome = "false" => IsSuppressible
        /\ call.outcome = "raise" <=>
               (~IsSuppressible /\ (~call.login_ok \/ ~call.send_ok))
        /\ call.outcome = "true" <=>
               (~IsSuppressible /\ call.login_ok /\ call.send_ok)

\* A duplicate is suppressed, where a send would have failed.
C5_Witness ==
    /\ IsPost /\ IsSuppressible
    /\ ~call.send_ok
    /\ call.outcome = "false"
    /\ call.sends = 0

---------------------------------------------------------------------------
(* Properties of TwitchMonitor, under SpecMonitor *)

IsGetToken == call.op = "get_token"

\* A credential was cached before the call, and the call came before its
\* expiry less 300 seconds.
ReusableBefore ==
    /\ call.before.access_token # None
    /\ call.before.token_expires_at # None
    /\ now < call.before.token_expires_at[1] - 300

\* C6: get_token returns the cached token without an exchange exactly while a
\* token is cached and now < expires_at - 300, and makes one exchange
\* otherwise; a token issued at 0 with expires_in 3600 is reused at 3000 and
\* exchanged anew at 3400.
C6_TokenReuse ==
    IsGetToken =>
        /\ call.exchanges = 0 <=> ReusableBefore
        /\ call.exchanges \in {0, 1}
        /\ ReusableBefore =>
               /\ call.result = call.before.access_token
               /\ MonitorState = call.before
        /\ (call.before.token_expires_at = Some(3600) /\ now = 3000) =>
               call.exchanges = 0
        /\ (call.before.token_expires_at = Some(3600) /\ now = 3400) =>
               call.exchanges = 1

\* The token issued at 0 for 3600 seconds, reused by the call before, is
\* exchanged at 3400.
C6_Witness ==
    /\ IsGetToken
    /\ call.before.access_token # None
    /\ call.before.token_expires_at = Some(3600)
    /\ now = 3400
    /\ call.prev.outcome = "reused"
    /\ call.outcome = "exchanged"

\* The exchange fails: no answer, a status other than 200, or no access_token.
FailedExchange(resp) ==
    resp.kind = "network_error" \/ resp.status # 200 \/ resp.token = None

\* C7: a failed token exchange raises after exactly one exchange request and
\* leaves the cached credential as it was, and the next _get_access_token,
\* at that time or later, attempts an exchange again.
C7_FailedExchange ==
    /\ (IsGetToken /\ call.response # None) =>
           /\ call.exchanges = 1
           /\ FailedExchange(call.response[1]) <=> call.outcome = "raise"
           /\ FailedExchange(call.response[1]) =>
                  (MonitorState = call.before /\ call.result = None)
    /\ (call.op \in {"get_token", "get_stream_info", "is_live"}
            /\ call.prev.outcome = "raise") =>
           call.exchanges = 1

\* With a credential cached, an exchange failed and the next call exchanged.
C7_Witness ==
    /\ IsGetToken
    /\ call.before.access_token # None
    /\ call.prev.outcome = "raise"
    /\ call.outcome = "exchanged"

\* C8: for a successful status response, get_stream_info returns None
\* exactly when the data list is empty and its first entry otherwise, and
\* is_live is true exactly when the list is not empty, that is when
\* get_stream_info is not None.
C8_Snapshot ==
    /\ (call.op = "get_stream_info" /\ ~call.raised) =>
           /\ call.info = None <=> call.response[1].data = <<>>
           /\ call.response[1].data # <<>> =>
                  call.info = Some(call.response[1].data[1])
    /\ (call.op = "is_live" /\ ~call.raised) =>
           (call.live <=> call.response[1].data # <<>>)

\* A response of two entries yields the first.
C8_Witness ==
    /\ call.op = "get_stream_info" /\ ~call.raised
    /\ Len(call.response[1].data) = 2
    /\ call.info = Some(E2)

---------------------------------------------------------------------------
(* Properties of the scheduled ticks, under Spec *)

\* No run_once is in progress.
BetweenTicks == pc \in {"start", "initial_status", "loop", "sleep", "exit"}

\* A run_once has returned, and the next has not started.
TickOver == BetweenTicks /\ tick.cur # "none"

\* C1: over the status results the scheduled ticks see, the bot calls
\* post_live_notification exactly once per maximal run of consecutive live
\* results, at the tick that starts the run.  A run that was live at the
\* startup query is none the ticks saw begin.
C1_OncePerLiveRun == BetweenTicks => seen.pubs = seen.runs

\* C9: a scheduled tick that finds the stored state OFFLINE and the status
\* live fetches the snapshot, calls post_live_notification exactly once, with
\* force = false and the snapshot's title and game, and stores LIVE.
C9_LiveEdgePublishes ==
    (TickOver /\ ~tick.pre /\ tick.cur = "live") =>
        /\ tick.snap # "none"
        /\ tick.pub_calls = 1
        /\ tick.pub # None
        /\ tick.info # None
        /\ tick.pub[1].force = FALSE
        /\ tick.pub[1].stream_title = tick.info[1].title
        /\ tick.pub[1].game_name = tick.info[1].game_name
        /\ last_live_status = TRUE

\* C10: a scheduled tick calls the publisher only when the stored state is
\* OFFLINE and the queried status is live; a LIVE to OFFLINE tick only stores
\* the new state, and a tick that finds no change fetches no snapshot and
\* changes nothing.
C10_PublishOnlyOnLiveEdge ==
    /\ (tick.pub_calls > 0 \/ tick.snap # "none" \/ pc \in {"tick_snapshot", "tick_publish"}) =>
           (~tick.pre /\ tick.cur = "live")
    /\ (TickOver /\ tick.pre /\ tick.cur = "offline") =>
           (tick.pub_calls = 0 /\ last_live_status = FALSE)
    /\ (TickOver /\ tick.cur \in {"live", "offline"} /\ tick.pre = (tick.cur = "live")) =>
           (tick.pub_calls = 0 /\ last_live_status = tick.pre)

\* After a publish on a live edge, a tick sees live again and publishes
\* nothing.
C10_Witness ==
    /\ TickOver
    /\ tick.pre /\ tick.cur = "live"
    /\ tick.pub_calls = 0
    /\ seen.pubs = 1

---------------------------------------------------------------------------
(* Properties of startup, under Spec *)

\* run has made its initial status query and no tick has started yet.
BeforeFirstTick == pc = "loop" /\ tick.cur = "none"

---------------------------------------------------------------------------
(* Properties of the hotkey callback, under Spec *)

\* A hotkey callback has returned.
ManualOver == manual.pc = "idle" /\ manual.snap # "none"

\* C12: every manual trigger calls post_live_notification, with force = true,
\* and the post is not skipped: with the snapshot's title and game and the
\* monitor's stream URL when the channel is live, with the generic title and
\* game and the fallback URL when it is offline.
C12_ManualAlwaysPublishes ==
    ManualOver =>
        /\ manual.pub # None
        /\ manual.pub[1].force = TRUE
        /\ manual.pub_result # "false"
        /\ manual.snap = "ok" =>
               /\ manual.pub[1].stream_title = manual.info[1].title
               /\ manual.pub[1].game_name = manual.info[1].game_name
               /\ manual.pub[1].stream_url = GetStreamUrl(MonitorUsername)
        /\ manual.snap = "empty" =>
               /\ manual.pub[1].stream_title = GenericTitle
               /\ manual.pub[1].game_name = GenericGame
               /\ manual.pub[1].stream_url = FallbackUrl(ConfigUsername)

\* C13: the hotkey callback is never between its status query and its post
\* while run_once is between its own calls on the monitor and the poster.
C13_TickExcludesManual ==
    ~(pc \in {"tick_snapshot", "tick_publish"} /\ manual.pc = "publish")

---------------------------------------------------------------------------
(* Properties of the run loop, under Spec *)

TickPhases == {"tick_check", "tick_snapshot", "tick_publish"}

\* C14: whatever the remote calls of a scheduled tick do, the run_once of the
\* loop returns to the sleep, the sleep to the loop test, and the loop test
\* starts the next tick while running is set; the loop ends only when a
\* shutdown signal has been delivered.
C14_LoopSurvivesFailures ==
    /\ [][(pc \in TickPhases /\ ~tick.once /\ pc' # pc) =>
              pc' \in TickPhases \cup {"sleep"}]_vars
    /\ [][(pc = "sleep" /\ pc' # pc) => pc' = "loop"]_vars
    /\ [][(pc = "loop" /\ pc' # pc) =>
              IF running THEN pc' = "tick_check" ELSE pc' = "exit" /\ seen.signal]_vars

\* A tick is running after one whose publish raised.
C14_Witness ==
    /\ pc \in TickPhases
    /\ tick.after = "publish_error"
    /\ running

\* C15: a scheduled tick whose status query fails leaves the stored status as
\* it was and publishes nothing, and the first later tick whose query
\* succeeds, if it finds the live edge, publishes it.
C15_FailedQueryKeepsEdge ==
    /\ (TickOver /\ tick.cur = "error") =>
           (last_live_status = tick.pre /\ tick.pub_calls = 0 /\ tick.snap = "none")
    /\ (TickOver /\ tick.after = "status_error" /\ ~tick.pre /\ tick.cur = "live") =>
           (tick.pub_calls = 1 /\ last_live_status = TRUE)

\* C16: when the publish of an OFFLINE to LIVE tick raises, the tick has made
\* one publish call and stores LIVE, and until a tick has seen the channel
\* offline no tick fetches a snapshot or publishes.
C16_NoRetryUntilNewEdge ==
    /\ tick.pub_calls <= 1
    /\ (TickOver /\ tick.pub_result = "raise") =>
           (tick.pub_calls = 1 /\ last_live_status = TRUE)
    /\ seen.failed_pub =>
           (last_live_status = TRUE /\ pc \notin {"tick_snapshot", "tick_publish"})

\* After a publish that raised, a later tick saw the channel live and has
\* returned without publishing.
C16_Witness ==
    /\ TickOver
    /\ seen.failed_pub
    /\ tick.after = "publish_error"
    /\ tick.cur = "live"
    /\ tick.pub_calls = 0

\* C17: once a shutdown signal has been delivered, the loop starts no tick.
C17_SignalStopsLoop == ~tick.late

---------------------------------------------------------------------------
(* Properties of post_live_notification, under SpecNotify *)

IsNotify == call.op = "post_live_notification"

\* The platform session exists for the upload of this call, or can be had.
CanLogIn == call.session \/ call.penv.login

\* C18: the link-preview fetch raises for no failure of the page request, the
\* parse, the image download, the login or the upload, and
\* post_live_notification goes on to call post; a failure of the page leaves
\* no embed, a failure about the image an embed without thumbnail.
C18_PreviewNeverRaises ==
    IsNotify =>
        /\ ~call.preview_raised
        /\ call.post_calls = 1
        /\ call.penv.page # "ok" => call.embed = None
        /\ call.penv.page = "ok" => call.embed # None
        /\ (call.penv.page = "ok"
              /\ (call.penv.image # "ok" \/ ~CanLogIn \/ ~call.penv.upload)) =>
               call.embed[1].thumb = None

\* The login for the upload failed, and post was still called.
C18_Witness ==
    /\ IsNotify
    /\ call.penv.page = "ok" /\ call.penv.image = "ok"
    /\ call.penv.size <= 1000000
    /\ ~CanLogIn
    /\ call.post_calls = 1

\* C19: an og:image of more than 1,000,000 bytes gives a card with the page's
\* title and description (og tags first, cut to 300 and 1000 characters), no
\* thumbnail, and no upload; an image of 1,000,000 bytes or less is uploaded,
\* and the blob the platform returns is attached.
C19_OversizedImage ==
    (IsNotify /\ call.penv.page = "ok" /\ call.penv.image = "ok") =>
        /\ call.embed # None
        /\ call.penv.size > 1000000 =>
               LET ti == IF call.penv.og_title # <<>> THEN call.penv.og_title
                         ELSE call.penv.title
                   de == IF call.penv.og_description # <<>> THEN call.penv.og_description
                         ELSE call.penv.description
               IN  /\ call.embed[1].thumb = None
                   /\ call.uploads = 0
                   /\ call.embed[1].title = IF Len(ti) <= 300 THEN ti ELSE SubSeq(ti, 1, 300)
                   /\ call.embed[1].description =
                          IF Len(de) <= 1000 THEN de ELSE SubSeq(de, 1, 1000)
        /\ (call.penv.size <= 1000000 /\ CanLogIn) =>
               /\ call.uploads = 1
               /\ call.penv.upload => call.embed[1].thumb # None

\* An image of 1,000,001 bytes came with a page that has a title.
C19_Witness ==
    /\ IsNotify
    /\ call.penv.page = "ok" /\ call.penv.image = "ok"
    /\ call.penv.size = 1000001
    /\ call.embed # None
    /\ call.embed[1].title = OgTitle
    /\ call.embed[1].thumb = None

\* C20: the text of a live notification is the announcement line, the title
\* line when a title is given, the game line when a game is given, the four
\* hashtags and the stream URL, in this order.
C20_RenderedOrder ==
    IsNotify =>
        call.text =
            "(red) I'm live on Twitch rn come slide!~\n\n"
            \o (IF call.stream_title # "" THEN "(tv) " \o call.stream_title \o "\n\n" ELSE "")
            \o (IF call.game_name # "" THEN "(pad) Playing " \o call.game_name \o "\n\n" ELSE "")
            \o "#blacksygamers #gaming #twitch #streaming\n\n"
            \o call.stream_url

\* The notification of the test: title, game and URL all given.
C20_Witness ==
    /\ IsNotify
    /\ call.stream_title = "Test Stream"
    /\ call.game_name = "Just Chatting"
    /\ call.stream_url = "https://twitch.tv/testuser"
    /\ call.text = "(red) I'm live on Twitch rn come slide!~\n\n(tv) Test Stream\n\n(pad) Playing Just Chatting\n\n#blacksygamers #gaming #twitch #streaming\n\nhttps://twitch.tv/testuser"

---------------------------------------------------------------------------
(* Properties of Config, under SpecConfig *)

\* The configuration the object holds passed validation.
Accepted == config # None /\ ~ValidateConfig(config[1]).raised

\* C21: for every configuration Config accepts, get_formatted_post() returns
\* a text that contains the channel username and does not contain the
\* placeholder {username}.
C21_FormattedPost ==
    (call.op = "get_formatted_post" /\ Accepted) =>
        /\ call.outcome = "ok"
        /\ Contains(call.text, <<config[1].twitch[1].username[1]>>)
        /\ ~Contains(call.text, Placeholder)

\* C22: after any sequence of load_config and reload_config calls, raising
\* or not, the settings the Config object exposes have every required field
\* present and not empty, and a check_interval that is an integer of at
\* least 30.
C22_ExposedSettingsValid ==
    config # None =>
        /\ config[1].twitch # None /\ config[1].bluesky # None
        /\ config[1].settings # None
        /\ \A f \in {"username", "client_id", "client_secret"} :
              config[1].twitch[1][f] \notin {None, Some("")}
        /\ \A f \in {"handle", "app_password"} :
              config[1].bluesky[1][f] \notin {None, Some("")}
        /\ config[1].settings[1].post_template \notin {None, Some(<<>>)}
        /\ config[1].settings[1].check_interval # None
        /\ config[1].settings[1].check_interval[1].type = "int"
        /\ config[1].settings[1].check_interval[1].value >= 30

---------------------------------------------------------------------------
(* Properties of the last-post record, under SpecRecord *)

LastPostRecord == <<last_post_content, last_post_time>>

\* The step is a post whose send succeeded, and it leaves the post's text
\* and the current time in the record.
RecordedBySend ==
    /\ call'.op = "post" /\ call'.outcome = "true" /\ call'.sends = 1
    /\ LastPostRecord' = <<Some(call'.text), Some(now')>>

\* C23, as stated: the last-post record changes only in a post whose send
\* succeeds.
C23_RecordChangesOnlyOnSend ==
    [][LastPostRecord' # LastPostRecord => RecordedBySend]_vars

\* C23, amended: the last-post record changes only in a post whose send
\* succeeds, forced or not, which sets it to the post's text and the current
\* time, and in reset_duplicate_tracking, which clears content and time; a
\* suppressed duplicate and a failed login or send leave it unchanged.
C23_RecordFrame ==
    /\ [][LastPostRecord' # LastPostRecord =>
              \/ RecordedBySend
              \/ /\ call'.op = "reset_duplicate_tracking"
                 /\ LastPostRecord' = <<None, None>>]_vars
    /\ [][(call'.op = "post" /\ <<call', now'>> # <<call, now>>) =>
              IF call'.outcome = "true" THEN RecordedBySend
              ELSE LastPostRecord' = LastPostRecord]_vars

\* A forced post whose send failed left the record of an earlier post, of
\* another text, as it was.
C23_Witness ==
    /\ IsPost /\ call.force
    /\ call.outcome = "raise" /\ call.sends = 1
    /\ last_post_content # None
    /\ last_post_content # Some(call.text)
    /\ last_post_time # Some(now)

---------------------------------------------------------------------------
(* Properties of the token cache, under SpecToken *)

\* C24: after any sequence of _get_access_token calls, the cached token and
\* its expiry are both unset while no exchange has succeeded, and otherwise
\* are the token of the most recent successful exchange and that exchange's
\* time plus its expires_in (3600 when the answer gave none).
C24_PairFromOneExchange ==
    IF prevCall = NoCall \/ prevCall.exchange = None
    THEN access_token = None /\ token_expires_at = None
    ELSE /\ access_token = Some(prevCall.exchange[1].token)
         /\ token_expires_at =
                Some(prevCall.exchange[1].time
                     + (IF prevCall.exchange[1].expires_in = None THEN 3600
                        ELSE prevCall.exchange[1].expires_in[1]))

---------------------------------------------------------------------------
(* Properties of the stream URL, under Spec *)

\* C25: every notification the bot publishes, from a scheduled tick or from
\* the hotkey, with the channel live or offline, carries the stream URL that
\* get_stream_url returns: https://twitch.tv/ and the channel name in
\* lowercase.
C25_SameStreamUrl ==
    /\ tick.pub # None =>
           /\ tick.pub[1].stream_url = GetStreamUrl(MonitorUsername)
           /\ tick.pub[1].stream_url = "https://twitch.tv/testuser"
    /\ manual.pub # None =>
           /\ manual.pub[1].stream_url = GetStreamUrl(MonitorUsername)
           /\ manual.pub[1].stream_url = "https://twitch.tv/testuser"

---------------------------------------------------------------------------
(* Properties of has_stream_changed, under SpecChange *)

\* The queried status differs from the cached one: offline to live, live to
\* offline, or live under another stream id.
StatusDiffers(cached, queried) ==
    \/ cached = None /\ queried # None
    \/ cached # None /\ queried = None
    \/ cached # None /\ queried # None /\ cached[1].id # queried[1].id

\* C26: a has_stream_changed call whose query succeeds returns true exactly
\* when the queried status differs from the cached one, and then caches the
\* queried status, and otherwise leaves the cache as it was; a call whose
\* query fails returns false and leaves the cache as it was.
C26_ChangeDetection ==
    call.op = "has_stream_changed" =>
        IF call.outcome = "raise"
        THEN ~call.result /\ last_stream_info = call.before
        ELSE /\ call.result <=> StatusDiffers(call.before, call.info)
             /\ call.result => last_stream_info = call.info
             /\ ~call.result => last_stream_info = call.before

\* The cached stream is live under another title: no change, and the cache
\* keeps the snapshot it had.
C26_Witness ==
    /\ call.op = "has_stream_changed" /\ call.outcome = "ok"
    /\ call.before = Some(E1)
    /\ call.info = Some(E3)
    /\ ~call.result
    /\ last_stream_info = Some(E1)

---------------------------------------------------------------------------
(* Properties of wait_for_live, under SpecWait *)

\* C27: wait_for_live returns true as soon as a status check reports live;
\* with max_duration > 0 it returns false, and does not go on to sleep, once
\* a status check ends more than max_duration seconds after the start
\* without the channel being seen live, whether the check returned or
\* failed; it returns false in no other case, and never when max_duration
\* is 0.
C27_WaitForLive ==
    /\ wait.last = "live" <=> wait.result = "true"
    /\ wait.result = "true" => wait.pc = "done"
    /\ (wait.pc = "sleep" /\ wait.max_duration > 0) =>
           now - wait.start_time <= wait.max_duration
    /\ wait.result = "false" =>
           (wait.max_duration > 0 /\ now - wait.start_time > wait.max_duration)

---------------------------------------------------------------------------
(* Properties of the login session, under SpecSession *)

IsSessionCall == call.op \in {"post_live_notification", "fetch_link_preview",
                              "test_connection"}

\* The preview fetch has an image to upload.
PreviewNeedsClient(penv) ==
    penv.page = "ok" /\ penv.image = "ok" /\ penv.size <= 1000000

\* The call asks _get_client for the client: a connection test always, a
\* preview fetch for its upload, a publish for its upload or for a post that
\* is not suppressed.
NeedsClient ==
    \/ call.op = "test_connection"
    \/ call.op = "fetch_link_preview" /\ PreviewNeedsClient(call.penv)
    \/ call.op = "post_live_notification"
          /\ (PreviewNeedsClient(call.penv) \/ call.outcome # "false")

\* C28: a call that finds a session makes no login and the session stays; a
\* call that finds none and needs the client logs in; no login follows a
\* successful one; the session exists after the call exactly when it existed
\* before or a login of the call succeeded, so a failed login stores none.
C28_LoginOnlyWithoutSession ==
    /\ [](IsSessionCall =>
            /\ call.logins = Len(call.login_results)
            /\ call.session => call.login_results = <<>>
            /\ (~call.session /\ NeedsClient) => Len(call.login_results) >= 1
            /\ ~NeedsClient => call.login_results = <<>>
            /\ \A i \in 1..(Len(call.login_results) - 1) : ~call.login_results[i]
            /\ client # None <=>
                   (call.session \/ \E i \in 1..Len(call.login_results) :
                                        call.login_results[i]))
    /\ [][client # None => client' = client]_vars

\* The login for the thumbnail failed, and the login for the post, in the
\* same publish, succeeded.
C28_Witness ==
    /\ call.op = "post_live_notification"
    /\ ~call.session
    /\ call.login_results = <<FALSE, TRUE>>
    /\ client # None

---------------------------------------------------------------------------
(* Properties of a suppressed live notification, under SpecNotify *)

\* C29, as stated: a live notification suppressed as a duplicate made no
\* login, no thumbnail blob upload and no send.
C29_SuppressedMakesNoRequest ==
    (IsNotify /\ call.outcome = "false") =>
        (call.logins = 0 /\ call.uploads = 0 /\ call.sends = 0)

\* C29, amended: a live notification suppressed as a duplicate made no login
\* and no send; its link preview was fetched before the duplicate test, so
\* the thumbnail was uploaded exactly when the page named an image of at
\* most 1,000,000 bytes that could be downloaded.
C29_SuppressedUploadsOnly ==
    (IsNotify /\ call.outcome = "false") =>
        /\ call.logins = 0 /\ call.login_results = <<>>
        /\ call.sends = 0
        /\ call.post_calls = 1
        /\ call.session
        /\ call.uploads = IF PreviewNeedsClient(call.penv) THEN 1 ELSE 0

\* A suppressed duplicate whose thumbnail was uploaded.
C29_Witness ==
    /\ IsNotify /\ call.outcome = "false"
    /\ call.penv.image = "ok"
    /\ call.uploads = 1
    /\ call.embed # None
    /\ call.embed[1].thumb # None

---------------------------------------------------------------------------
(* Properties of MockBlueSkyPoster, under SpecMock *)

\* C30: after every post call given to both, the mock and the poster whose
\* login and send succeed have returned the same result and hold the same
\* last-post record, and the mock's posted_messages are the posts that
\* returned true, in call order.
C30_MockMatchesPoster ==
    /\ call.op = "post_on_both" => call.mock_outcome = call.outcome
    /\ call.op = "post_on_both" => call.outcome \in {"true", "false"}
    /\ mock.last_post_content = last_post_content
    /\ mock.last_post_time = last_post_time
    /\ [i \in 1..Len(mock.posted_messages) |->
           [text |-> mock.posted_messages[i].text,
            time |-> mock.posted_messages[i].time]] = published

\* The calls of test_duplicate_prevention: a post, its immediate duplicate,
\* refused, and the forced duplicate, which both posters took.
C30_Witness ==
    /\ call.op = "post_on_both" /\ call.force
    /\ call.outcome = "true" /\ call.mock_outcome = "true"
    /\ Len(mock.posted_messages) = 2
    /\ mock.posted_messages[1].text = "Test duplicate"
    /\ mock.posted_messages[2].text = "Test duplicate"
    /\ mock.posted_messages[2].time = mock.posted_messages[1].time

====
